---- MODULE Spec2Model ----
(***************************************************************************)
(* Hybrid codec for sets of integers in 1..300: a 300-bit bitset ("B1:")   *)
(* or delta + varint ("D1:"), both carried as base64url text.              *)
(*                                                                         *)
(* Strings are sequences of one-character strings.  A JavaScript value of  *)
(* an input collection is a record [typ, cls, v]: typ is the typeof        *)
(* result, cls tells an integer from a fractional number, NaN and the      *)
(* infinities, v is the value of an integer (the floor of a fraction).     *)
(* A call either returns or throws: [ok |-> TRUE, ...] or                  *)
(* [ok |-> FALSE, error |-> [message |-> ..., ...]].                       *)
(***************************************************************************)
EXTENDS Integers, Sequences, FiniteSets, TLC

VARIABLES numbers, payload, output, ran, again, pc

vars == <<numbers, payload, output, ran, again, pc>>

MIN_VALUE == 1
MAX_VALUE == 300
BITMASK_SIZE_BYTES == 38

\* ------------------------------------------------------------ bounds
MaxLen == 3        \* longest explicit input collection
MaxRun == 39       \* longest arithmetic run of an input collection
MaxStep == 2       \* largest step of an arithmetic run
MaxChunks == 3     \* most varint chunks in a crafted D1 body
MaxRawLen == 3     \* longest crafted body of raw characters

\* ------------------------------------------------------------ integers
Pow2(n) == 2 ^ n

Min(a, b) == IF a < b THEN a ELSE b

Max(S) == CHOOSE x \in S : \A y \in S : y <= x

MinInt32 == -2147483647 - 1

\* a 32-bit two's complement integer: its sign bit and its bits 0..30
SignBit(a) == IF a < 0 THEN 1 ELSE 0

Low31(a) == IF a < 0 THEN a - MinInt32 ELSE a

RECURSIVE OrBits(_, _)
OrBits(a, b) ==
  IF a = 0 THEN b
  ELSE IF b = 0 THEN a
  ELSE (IF a % 2 = 1 \/ b % 2 = 1 THEN 1 ELSE 0) + 2 * OrBits(a \div 2, b \div 2)

RECURSIVE AndBits(_, _)
AndBits(a, b) ==
  IF a = 0 \/ b = 0 THEN 0
  ELSE (IF a % 2 = 1 /\ b % 2 = 1 THEN 1 ELSE 0) + 2 * AndBits(a \div 2, b \div 2)

\* a | b and a & b on 32-bit integers
BitOr(a, b) ==
  OrBits(Low31(a), Low31(b))
    + (IF SignBit(a) = 1 \/ SignBit(b) = 1 THEN MinInt32 ELSE 0)

BitAnd(a, b) ==
  AndBits(Low31(a), Low31(b))
    + (IF SignBit(a) = 1 /\ SignBit(b) = 1 THEN MinInt32 ELSE 0)

\* x << s for 0 <= x < 2^31: the shift count is taken modulo 32, bits moved
\* past bit 31 are dropped and bit 31 is the sign
ShiftLeft(x, s) ==
  LET k == s % 32
      room == 31 - k
  IN  IF k = 0 THEN x
      ELSE (x % Pow2(room)) * Pow2(k)
           + (IF (x \div Pow2(room)) % 2 = 1 THEN MinInt32 ELSE 0)

\* x >> s and x >>> s for x >= 0
ShiftRight(x, s) == x \div Pow2(s % 32)

\* a store into a Uint8Array element
ToUint8(x) == x % 256

\* ------------------------------------------------------------ strings
Alphabet ==
  << "A","B","C","D","E","F","G","H","I","J","K","L","M","N","O","P",
     "Q","R","S","T","U","V","W","X","Y","Z","a","b","c","d","e","f",
     "g","h","i","j","k","l","m","n","o","p","q","r","s","t","u","v",
     "w","x","y","z","0","1","2","3","4","5","6","7","8","9","+","/" >>

\* the characters the decoder of Buffer.from(str, 'base64') gives a value:
\* the base64 alphabet and the two URL-safe characters
DecodeTable ==
  [c \in {Alphabet[i] : i \in 1..64} \cup {"-", "_"} |->
     IF c = "-" THEN 62
     ELSE IF c = "_" THEN 63
     ELSE (CHOOSE i \in 1..64 : Alphabet[i] = c) - 1]

Replace(str, from, to) ==
  [i \in 1..Len(str) |-> IF str[i] = from THEN to ELSE str[i]]

RECURSIVE StripTrailing(_, _)
StripTrailing(str, c) ==
  IF Len(str) > 0 /\ str[Len(str)] = c
  THEN StripTrailing(SubSeq(str, 1, Len(str) - 1), c)
  ELSE str

StartsWith(str, prefix) ==
  Len(str) >= Len(prefix) /\ SubSeq(str, 1, Len(prefix)) = prefix

\* str.slice(n) and str.substring(0, n)
Slice(str, n) == SubSeq(str, Min(n, Len(str)) + 1, Len(str))

Substring(str, n) == SubSeq(str, 1, Min(n, Len(str)))

\* A loop for (i = lo; i <= hi; i++) over an accumulator is written by
\* halving its range: the turns run in the order of the source, the
\* evaluation nests only to the logarithm of the range, and the first half
\* is evaluated (left = left) before the second half starts.

\* ------------------------------------------------------------ arrays
\* new Set(iterable): the distinct values in order of first insertion
AddToSet(set, x) ==
  IF x \in set.has THEN set ELSE [has |-> set.has \cup {x}, order |-> Append(set.order, x)]

RECURSIVE AddAll(_, _, _, _)
AddAll(seq, lo, hi, acc) ==
  IF lo > hi THEN acc
  ELSE IF lo = hi THEN AddToSet(acc, seq[lo])
  ELSE LET mid == (lo + hi) \div 2
           left == AddAll(seq, lo, mid, acc)
       IN  IF left = left THEN AddAll(seq, mid + 1, hi, left) ELSE left

NewSet(seq) == AddAll(seq, 1, Len(seq), [has |-> {}, order |-> <<>>]).order

\* x put into an ascending array after the elements that compare <= x
InsertSorted(sorted, x) ==
  LET k == Cardinality({i \in 1..Len(sorted) : sorted[i] - x <= 0})
  IN  SubSeq(sorted, 1, k) \o <<x>> \o SubSeq(sorted, k + 1, Len(sorted))

\* array.sort((a, b) => a - b)
RECURSIVE InsertAll(_, _, _, _)
InsertAll(seq, lo, hi, acc) ==
  IF lo > hi THEN acc
  ELSE IF lo = hi THEN InsertSorted(acc, seq[lo])
  ELSE LET mid == (lo + hi) \div 2
           left == InsertAll(seq, lo, mid, acc)
       IN  IF left = left THEN InsertAll(seq, mid + 1, hi, left) ELSE left

SortAscending(seq) == InsertAll(seq, 1, Len(seq), <<>>)

\* ------------------------------------------------------------ normalizer
Num(n) == [typ |-> "number", cls |-> "int", v |-> n]

IsInteger(num) == num.typ = "number" /\ num.cls = "int"

isNaN(num) == num.cls = "NaN"

isFinite(num) == num.cls \in {"int", "frac"}

KeepNumber(num) ==
  IF num.typ # "number" \/ ~IsInteger(num) THEN FALSE
  ELSE num.v >= MIN_VALUE /\ num.v <= MAX_VALUE /\ ~isNaN(num) /\ isFinite(num)

\* variant: the zero-based bit index is stored instead of the number
PushValidZeroBased(valid, num) ==
  IF KeepNumber(num) THEN Append(valid, num.v - MIN_VALUE) ELSE valid

PushValid(valid, num) ==
  IF KeepNumber(num) THEN Append(valid, num.v) ELSE valid

RECURSIVE ValidOf(_, _, _, _)
ValidOf(numberSet, lo, hi, acc) ==
  IF lo > hi THEN acc
  ELSE IF lo = hi THEN PushValid(acc, numberSet[lo])
  ELSE LET mid == (lo + hi) \div 2
           left == ValidOf(numberSet, lo, mid, acc)
       IN  IF left = left THEN ValidOf(numberSet, mid + 1, hi, left) ELSE left

normalizeNumbers(nums) ==
  LET numberSet == NewSet(nums)
      valid == ValidOf(numberSet, 1, Len(numberSet), <<>>)
  IN  SortAscending(NewSet(valid))

\* an array of numbers as the input collection of another call
AsNumbers(seq) == [i \in 1..Len(seq) |-> Num(seq[i])]

\* ------------------------------------------------------------ base64url
Sextets(b1, b2, b3) ==
  << b1 \div 4, (b1 % 4) * 16 + b2 \div 16, (b2 % 16) * 4 + b3 \div 64, b3 % 64 >>

\* buffer.toString('base64'): 3 bytes to 4 characters, '=' where the last
\* group has no second or third byte
ToBase64(bytes) ==
  LET n == Len(bytes)
      ByteAt(j) == IF j <= n THEN bytes[j] ELSE 0
  IN  [k \in 1..(4 * ((n + 2) \div 3)) |->
         LET g == (k - 1) \div 4
             p == (k - 1) % 4
         IN  IF 3 * g + p > n THEN "="
             ELSE Alphabet[Sextets(ByteAt(3 * g + 1), ByteAt(3 * g + 2),
                                   ByteAt(3 * g + 3))[p + 1] + 1]]

\* variant: the '=' padding is kept
base64urlEncodePadded(bytes) ==
  Replace(Replace(ToBase64(bytes), "+", "-"), "/", "_")

base64urlEncode(bytes) ==
  StripTrailing(Replace(Replace(ToBase64(bytes), "+", "-"), "/", "_"), "=")

\* The 6-bit values Buffer.from(str, 'base64') reads: a character without a
\* value is skipped, '=' ends the data.  It never throws.
ReadChar(acc, c) ==
  IF acc.done THEN acc
  ELSE IF c = "=" THEN [acc EXCEPT !.done = TRUE]
  ELSE IF c \in DOMAIN DecodeTable
       THEN [acc EXCEPT !.sextets = Append(@, DecodeTable[c])]
       ELSE acc

RECURSIVE ReadChars(_, _, _, _)
ReadChars(str, lo, hi, acc) ==
  IF lo > hi THEN acc
  ELSE IF lo = hi THEN ReadChar(acc, str[lo])
  ELSE LET mid == (lo + hi) \div 2
           left == ReadChars(str, lo, mid, acc)
       IN  IF left = left THEN ReadChars(str, mid + 1, hi, left) ELSE left

SextetsOf(str) ==
  ReadChars(str, 1, Len(str), [done |-> FALSE, sextets |-> <<>>]).sextets

\* 4 values to 3 bytes; 2 or 3 values left over give 1 or 2 bytes
BytesOfSextets(s) ==
  [m \in 1..((Len(s) * 3) \div 4) |->
     LET g == (m - 1) \div 3
         q == (m - 1) % 3
     IN  IF q = 0 THEN s[4 * g + 1] * 4 + s[4 * g + 2] \div 16
         ELSE IF q = 1 THEN (s[4 * g + 2] % 16) * 16 + s[4 * g + 3] \div 4
         ELSE (s[4 * g + 3] % 4) * 64 + s[4 * g + 4]]

BufferFromBase64(str) == BytesOfSextets(SextetsOf(str))

RECURSIVE PadBase64(_)
PadBase64(base64) ==
  IF Len(base64) % 4 # 0 THEN PadBase64(Append(base64, "=")) ELSE base64

\* Format A's decoder copies what it decoded into a fresh 38-byte array
base64urlDecode(str) ==
  LET base64 == PadBase64(Replace(Replace(str, "-", "+"), "_", "/"))
      buffer == BufferFromBase64(base64)
  IN  [i \in 1..BITMASK_SIZE_BYTES |->
         IF i <= Min(Len(buffer), BITMASK_SIZE_BYTES) THEN buffer[i] ELSE 0]

encodeBytesForDelta(bytes) == base64urlEncode(bytes)

decodeBytesForDelta(str) ==
  BufferFromBase64(PadBase64(Replace(Replace(str, "-", "+"), "_", "/")))

\* ------------------------------------------------------------ results
Return(x) == [ok |-> TRUE, value |-> x]

Throw(message) == [ok |-> FALSE, error |-> [message |-> message]]

\* ------------------------------------------------------------ Format A
\* variant: the bit offset counts from the least significant bit
SetBitLsbFirst(bitmask, num) ==
  LET bitIndex == num - MIN_VALUE
      byteIndex == bitIndex \div 8
      bitOffset == bitIndex % 8
  IN  [bitmask EXCEPT ![byteIndex + 1] = ToUint8(BitOr(@, ShiftLeft(1, bitOffset)))]

\* byte indices count from 0 in the source and from 1 in a sequence
SetBit(bitmask, num) ==
  LET bitIndex == num - MIN_VALUE
      byteIndex == bitIndex \div 8
      bitOffset == bitIndex % 8
  IN  [bitmask EXCEPT ![byteIndex + 1] = ToUint8(BitOr(@, ShiftLeft(1, 7 - bitOffset)))]

RECURSIVE SetBits(_, _, _, _)
SetBits(nums, lo, hi, acc) ==
  IF lo > hi THEN acc
  ELSE IF lo = hi THEN SetBit(acc, nums[lo])
  ELSE LET mid == (lo + hi) \div 2
           left == SetBits(nums, lo, mid, acc)
       IN  IF left = left THEN SetBits(nums, mid + 1, hi, left) ELSE left

\* the Uint8Array the encoder fills before it is transcoded
createBitmask(nums) ==
  SetBits(nums, 1, Len(nums), [i \in 1..BITMASK_SIZE_BYTES |-> 0])

serializeBitset(nums) ==
  LET bitmask == createBitmask(nums)
      encoded == base64urlEncode(bitmask)
  IN  <<"B", "1", ":">> \o encoded

\* the bitset-only serialize: the valid values of the Set go into the
\* bitmask in insertion order, an empty input gives the all-zero bitmask
serializeB1(nums) ==
  LET numberSet == NewSet(nums)
      valid == ValidOf(numberSet, 1, Len(numberSet), <<>>)
      bitmask == createBitmask(valid)
      encoded == base64urlEncode(bitmask)
  IN  [bitmask |-> bitmask, value |-> <<"B", "1", ":">> \o encoded]

ScanBit(bitmask, nums, bitIndex) ==
  LET byteIndex == bitIndex \div 8
      bitOffset == bitIndex % 8
      bit == BitAnd(ShiftRight(bitmask[byteIndex + 1], 7 - bitOffset), 1)
  IN  IF bit = 1 THEN Append(nums, bitIndex + MIN_VALUE) ELSE nums

RECURSIVE ScanBits(_, _, _, _)
ScanBits(bitmask, lo, hi, acc) ==
  IF lo > hi THEN acc
  ELSE IF lo = hi THEN ScanBit(bitmask, acc, lo)
  ELSE LET mid == (lo + hi) \div 2
           left == ScanBits(bitmask, lo, mid, acc)
       IN  IF left = left THEN ScanBits(bitmask, mid + 1, hi, left) ELSE left

deserializeBitset(str) ==
  LET encoded == Slice(str, 3)
  IN  IF Len(encoded) = 0 THEN Throw("Invalid B1 format: empty encoded data")
      ELSE LET bitmask == base64urlDecode(encoded)
           IN  IF Len(bitmask) # BITMASK_SIZE_BYTES
               THEN [ok |-> FALSE,
                     error |-> [message |-> "Invalid bitmask size", got |-> Len(bitmask)]]
               ELSE Return(SortAscending(ScanBits(bitmask, 0, 299, <<>>)))

\* ------------------------------------------------------------ Format B
RECURSIVE VarintBytes(_, _)
VarintBytes(v, bytes) ==
  IF v >= 128
  THEN VarintBytes(ShiftRight(v, 7), Append(bytes, BitOr(BitAnd(v, 127), 128)))
  ELSE Append(bytes, BitAnd(v, 127))

encodeVarint(value) ==
  IF value < 0 THEN Throw("Varint cannot encode negative numbers")
  ELSE Return(VarintBytes(value, <<>>))

\* offset and i count from 0, as in the source
RECURSIVE VarintLoop(_, _, _, _, _)
VarintLoop(bytes, i, value, shift, bytesRead) ==
  IF i >= Len(bytes) THEN [ok |-> TRUE, value |-> value, bytesRead |-> bytesRead]
  ELSE LET byte == bytes[i + 1]
           value2 == BitOr(value, ShiftLeft(BitAnd(byte, 127), shift))
       IN  IF BitAnd(byte, 128) = 0
           THEN [ok |-> TRUE, value |-> value2, bytesRead |-> bytesRead + 1]
           ELSE IF shift + 7 >= 32 THEN Throw("Varint too large")
           ELSE VarintLoop(bytes, i + 1, value2, shift + 7, bytesRead + 1)

decodeVarint(bytes, offset) == VarintLoop(bytes, offset, 0, 0, 0)

\* variant: the delta is written as it is, not as delta - 1
PushDeltaPlain(varintBytes, nums, i) ==
  IF ~varintBytes.ok THEN varintBytes
  ELSE LET delta == nums[i] - nums[i - 1]
       IN  IF delta < 1
           THEN [ok |-> FALSE, error |-> [message |-> "Invalid delta", got |-> delta]]
           ELSE LET deltaVarint == encodeVarint(delta)
                IN  IF ~deltaVarint.ok THEN deltaVarint
                    ELSE Return(varintBytes.value \o deltaVarint.value)

\* one turn of the loop over the deltas; a throw ends the loop
PushDelta(varintBytes, nums, i) ==
  IF ~varintBytes.ok THEN varintBytes
  ELSE LET delta == nums[i] - nums[i - 1]
       IN  IF delta < 1
           THEN [ok |-> FALSE, error |-> [message |-> "Invalid delta", got |-> delta]]
           ELSE LET deltaVarint == encodeVarint(delta - 1)
                IN  IF ~deltaVarint.ok THEN deltaVarint
                    ELSE Return(varintBytes.value \o deltaVarint.value)

RECURSIVE PushDeltas(_, _, _, _)
PushDeltas(nums, lo, hi, acc) ==
  IF lo > hi THEN acc
  ELSE IF lo = hi THEN PushDelta(acc, nums, lo)
  ELSE LET mid == (lo + hi) \div 2
           left == PushDeltas(nums, lo, mid, acc)
       IN  IF left = left THEN PushDeltas(nums, mid + 1, hi, left) ELSE left

serializeDelta(nums) ==
  IF Len(nums) = 0 THEN Return(<<"D", "1", ":">>)
  ELSE LET firstVarint == encodeVarint(nums[1] - 1)
       IN  IF ~firstVarint.ok THEN firstVarint
           ELSE LET varintBytes == PushDeltas(nums, 2, Len(nums), firstVarint)
                IN  IF ~varintBytes.ok THEN varintBytes
                    ELSE Return(<<"D", "1", ":">> \o encodeBytesForDelta(varintBytes.value))

RECURSIVE DeltaLoop(_, _, _, _)
DeltaLoop(bytes, offset, current, nums) ==
  IF offset >= Len(bytes) THEN Return(SortAscending(nums))
  ELSE LET deltaResult == decodeVarint(bytes, offset)
       IN  IF ~deltaResult.ok THEN deltaResult
           ELSE LET delta == deltaResult.value + 1
                    next == current + delta
                IN  IF next > MAX_VALUE
                    THEN [ok |-> FALSE,
                          error |-> [message |-> "Invalid number after delta", got |-> next]]
                    ELSE DeltaLoop(bytes, offset + deltaResult.bytesRead, next,
                                   Append(nums, next))

\* variant: an empty body is not returned as the empty set
deserializeDeltaNoEmpty(str) ==
  LET bytes == decodeBytesForDelta(Slice(str, 3))
  IN  IF 0 >= Len(bytes) THEN Throw("Invalid D1 format: missing first number")
      ELSE LET firstResult == decodeVarint(bytes, 0)
           IN  IF ~firstResult.ok THEN firstResult
               ELSE LET first == firstResult.value + 1
                    IN  IF first < MIN_VALUE \/ first > MAX_VALUE
                        THEN [ok |-> FALSE,
                              error |-> [message |-> "Invalid first number", got |-> first]]
                        ELSE DeltaLoop(bytes, firstResult.bytesRead, first, <<first>>)

deserializeDelta(str) ==
  LET encoded == Slice(str, 3)
  IN  IF Len(encoded) = 0 THEN Return(<<>>)
      ELSE LET bytes == decodeBytesForDelta(encoded)
           IN  IF 0 >= Len(bytes) THEN Throw("Invalid D1 format: missing first number")
               ELSE LET firstResult == decodeVarint(bytes, 0)
                    IN  IF ~firstResult.ok THEN firstResult
                        ELSE LET first == firstResult.value + 1
                             IN  IF first < MIN_VALUE \/ first > MAX_VALUE
                                 THEN [ok |-> FALSE,
                                       error |-> [message |-> "Invalid first number",
                                                  got |-> first]]
                                 ELSE DeltaLoop(bytes, firstResult.bytesRead, first,
                                                <<first>>)

\* ------------------------------------------------------------ public API
\* result: what the call returns or throws; ran: the format codecs it called
\* variant: the delta format also wins a tie
serializePreferDelta(nums) ==
  LET normalized == normalizeNumbers(nums)
  IN  IF Len(normalized) = 0
      THEN [result |-> Return(<<"D", "1", ":">>), ran |-> {}]
      ELSE LET bitsetStr == serializeBitset(normalized)
               deltaStr == serializeDelta(normalized)
           IN  [result |->
                  IF ~deltaStr.ok THEN deltaStr
                  ELSE IF Len(deltaStr.value) <= Len(bitsetStr) THEN deltaStr
                  ELSE Return(bitsetStr),
                ran |-> {"serializeBitset", "serializeDelta"}]

serialize(nums) ==
  LET normalized == normalizeNumbers(nums)
  IN  IF Len(normalized) = 0
      THEN [result |-> Return(<<"D", "1", ":">>), ran |-> {}]
      ELSE LET bitsetStr == serializeBitset(normalized)
               deltaStr == serializeDelta(normalized)
           IN  [result |->
                  IF ~deltaStr.ok THEN deltaStr
                  ELSE IF Len(deltaStr.value) < Len(bitsetStr) THEN deltaStr
                  ELSE Return(bitsetStr),
                ran |-> {"serializeBitset", "serializeDelta"}]

\* A payload is a string here, so of the two tests of line 324 only the
\* length decides.
\* variant: the marker is compared without its colon
deserializeLooseMarker(str) ==
  IF Len(str) = 0
  THEN [result |-> Throw("Invalid payload: must be a non-empty string"), ran |-> {}]
  ELSE IF StartsWith(str, <<"B", "1">>)
  THEN [result |-> deserializeBitset(str), ran |-> {"deserializeBitset"}]
  ELSE IF StartsWith(str, <<"D", "1">>)
  THEN [result |-> deserializeDelta(str), ran |-> {"deserializeDelta"}]
  ELSE [result |-> [ok |-> FALSE,
                    error |-> [message |-> "Invalid format: expected prefix B1: or D1:",
                               got |-> Substring(str, 3)]],
        ran |-> {}]

deserialize(str) ==
  IF Len(str) = 0
  THEN [result |-> Throw("Invalid payload: must be a non-empty string"), ran |-> {}]
  ELSE IF StartsWith(str, <<"B", "1", ":">>)
  THEN [result |-> deserializeBitset(str), ran |-> {"deserializeBitset"}]
  ELSE IF StartsWith(str, <<"D", "1", ":">>)
  THEN [result |-> deserializeDelta(str), ran |-> {"deserializeDelta"}]
  ELSE [result |-> [ok |-> FALSE,
                    error |-> [message |-> "Invalid format: expected prefix B1: or D1:",
                               got |-> Substring(str, 3)]],
        ran |-> {}]

\* ------------------------------------------------------------ inputs
Fraction(n) == [typ |-> "number", cls |-> "frac", v |-> n]

NaN == [typ |-> "number", cls |-> "NaN", v |-> 0]

Infinity == [typ |-> "number", cls |-> "Infinity", v |-> 0]

Text(n) == [typ |-> "string", cls |-> "text", v |-> n]

\* members at both ends and in the middle of the range, neighbours outside
\* it, 1.5, NaN, Infinity and the string "2"
SampleValues ==
  { Num(1), Num(2), Num(150), Num(300), Num(0), Num(301), Num(-5),
    Fraction(1), NaN, Infinity, Text(2) }

RECURSIVE SeqsUpTo(_, _)
SeqsUpTo(S, n) ==
  IF n = 0 THEN { <<>> }
  ELSE LET shorter == SeqsUpTo(S, n - 1)
       IN  shorter \cup { Append(q, x) : q \in { r \in shorter : Len(r) = n - 1 }, x \in S }

SmallInputs == SeqsUpTo(SampleValues, MaxLen)

\* lo, lo+step, ... (n values), ascending or descending
Run(lo, step, n, descending) ==
  [i \in 1..n |-> Num(IF descending THEN lo + (n - i) * step ELSE lo + (i - 1) * step)]

RunStarts == {1, 2, 129, 264}

Extras == { <<>>, <<Num(300)>>, <<Num(1), Num(1)>>, <<Fraction(7)>> }

\* long runs around the size at which the two formats are equally long
RunInputs ==
  { Run(lo, step, n, d) \o e :
      lo \in RunStarts, step \in 1..MaxStep, n \in 35..MaxRun, d \in BOOLEAN, e \in Extras }

FullSet == Run(MIN_VALUE, 1, MAX_VALUE, FALSE)

Inputs == SmallInputs \cup RunInputs \cup {FullSet}

\* ------------------------------------------------------------ payloads
Markers ==
  { <<>>, <<"B", "1", ":">>, <<"D", "1", ":">>, <<"X", "X", ":">>, <<"B", "1">>,
    <<"d", "1", ":">> }

\* varints: 0, 1, 299, 300, an unfinished byte, five-byte varints whose last
\* byte carries bits 28..31 (15), bit 32 (16), and a continuation bit
Chunks ==
  { <<0>>, <<1>>, <<171, 2>>, <<172, 2>>, <<128>>,
    <<128, 128, 128, 128, 15>>, <<255, 255, 255, 255, 15>>,
    <<128, 128, 128, 128, 16>>, <<128, 128, 128, 128, 128>> }

RECURSIVE Flatten(_)
Flatten(seqs) == IF Len(seqs) = 0 THEN <<>> ELSE Head(seqs) \o Flatten(Tail(seqs))

VarintBodies == { base64urlEncode(Flatten(q)) : q \in SeqsUpTo(Chunks, MaxChunks) }

RawChars == { "A", "Q", "_", "+", "=", "!" }

RawBodies == SeqsUpTo(RawChars, MaxRawLen)

\* bitmasks of 37, 38 and 39 bytes
MaskBodies ==
  { base64urlEncode([i \in 1..n |-> IF i = 1 THEN b ELSE IF i = n THEN c ELSE 0]) :
      n \in (BITMASK_SIZE_BYTES - 1)..(BITMASK_SIZE_BYTES + 1), b \in {0, 129}, c \in {0, 16, 31} }

Payloads ==
  { m \o body : m \in Markers, body \in VarintBodies \cup RawBodies \cup MaskBodies }

\* ------------------------------------------------------------ state machine
NotCalled == [ok |-> FALSE, error |-> [message |-> "not called"]]

\* tests.js runTest, cli encode: an input collection waits to be serialized
Init ==
  /\ numbers \in Inputs
  /\ payload = <<>>
  /\ output = NotCalled
  /\ ran = {}
  /\ again = NotCalled
  /\ pc = "start"

\* cli decode: a payload waits to be deserialized
InitDecode ==
  /\ numbers = <<>>
  /\ payload \in Payloads
  /\ output = NotCalled
  /\ ran = {}
  /\ again = NotCalled
  /\ pc = "encoded"

InitNormalize ==
  /\ numbers \in Inputs
  /\ payload = <<>>
  /\ output = NotCalled
  /\ ran = {}
  /\ again = NotCalled
  /\ pc = "start"

Serialize ==
  /\ pc = "start"
  /\ LET s == serialize(numbers)
     IN  /\ ran' = s.ran
         /\ IF s.result.ok
            THEN payload' = s.result.value /\ output' = output /\ pc' = "encoded"
            ELSE payload' = payload /\ output' = s.result /\ pc' = "failed"
  /\ UNCHANGED <<numbers, again>>

Deserialize ==
  /\ pc = "encoded"
  /\ LET d == deserialize(payload)
     IN  output' = d.result /\ ran' = d.ran
  /\ pc' = "decoded"
  /\ UNCHANGED <<numbers, payload, again>>

Normalize ==
  /\ pc = "start"
  /\ output' = Return(normalizeNumbers(numbers))
  /\ pc' = "normalized"
  /\ UNCHANGED <<numbers, payload, ran, again>>

Renormalize ==
  /\ pc = "normalized"
  /\ again' = Return(normalizeNumbers(AsNumbers(output.value)))
  /\ pc' = "renormalized"
  /\ UNCHANGED <<numbers, payload, output, ran>>

\* the hybrid serialize's call of the bitset encoder on a non-empty
\* normalized set; the bitmask it built is kept for inspection
SerializeBitset ==
  /\ pc = "start"
  /\ LET normalized == normalizeNumbers(numbers)
     IN  /\ Len(normalized) > 0
         /\ output' = Return(createBitmask(normalized))
         /\ payload' = serializeBitset(normalized)
  /\ ran' = {"serializeBitset"}
  /\ pc' = "bitset"
  /\ UNCHANGED <<numbers, again>>

\* the bitset-only serialize, which builds the bitmask for every input
SerializeB1 ==
  /\ pc = "start"
  /\ LET s == serializeB1(numbers)
     IN  output' = Return(s.bitmask) /\ payload' = s.value
  /\ ran' = {"serialize"}
  /\ pc' = "bitset"
  /\ UNCHANGED <<numbers, again>>

Next == Serialize \/ Deserialize

Spec == Init /\ [][Next]_vars

NextDecode == Deserialize

SpecDecode == InitDecode /\ [][NextDecode]_vars

NextNormalize == Normalize \/ Renormalize

SpecNormalize == InitNormalize /\ [][NextNormalize]_vars

NextBitset == SerializeBitset \/ SerializeB1

SpecBitset == Init /\ [][NextBitset]_vars

\* ------------------------------------------------------------ properties
B1 == <<"B", "1", ":">>

D1 == <<"D", "1", ":">>

Body == Slice(payload, 3)

Range(seq) == {seq[i] : i \in 1..Len(seq)}

\* the members of [1,300] among the values of an input collection
ValidMembers(nums) ==
  { nums[i].v : i \in { j \in 1..Len(nums) :
      nums[j].typ = "number" /\ nums[j].cls = "int" /\ nums[j].v \in 1..300 } }

StrictlyIncreasing(seq) == \A i \in 1..(Len(seq) - 1) : seq[i] < seq[i + 1]

\* C1: serialize never fails, and deserialize of its payload returns exactly
\* the members of [1,300] of the input in ascending order, whatever the order
\* and the duplicates of the input and whichever format was selected.
RoundTrip ==
  /\ pc # "failed"
  /\ pc = "decoded" =>
       /\ output.ok
       /\ StrictlyIncreasing(output.value)
       /\ Range(output.value) = ValidMembers(numbers)

\* a descending run with duplicates, sent as a bitset, has come back
RoundTripWitness ==
  /\ pc = "decoded"
  /\ StartsWith(payload, B1)
  /\ Len(numbers) > Len(output.value)
  /\ numbers[1].v > numbers[2].v
  /\ Range(output.value) = ValidMembers(numbers)

\* C2: for a non-empty normalized set the payload is the D1 payload iff that
\* is strictly shorter than the B1 payload, the B1 payload otherwise; its
\* length is the minimum of the two lengths and a tie yields B1.
FormatSelection ==
  pc = "encoded" /\ ValidMembers(numbers) # {} =>
    LET normalized == normalizeNumbers(numbers)
        bitsetStr == serializeBitset(normalized)
        deltaStr == serializeDelta(normalized).value
    IN  /\ StartsWith(bitsetStr, B1) /\ StartsWith(deltaStr, D1)
        /\ (payload = deltaStr) <=> (Len(deltaStr) < Len(bitsetStr))
        /\ (payload = bitsetStr) <=> (Len(deltaStr) >= Len(bitsetStr))
        /\ Len(payload) = Min(Len(bitsetStr), Len(deltaStr))

\* both payloads are equally long and the bitset payload was returned
FormatSelectionWitness ==
  /\ pc = "encoded"
  /\ ValidMembers(numbers) # {}
  /\ Len(serializeDelta(normalizeNumbers(numbers)).value) = Len(payload)
  /\ StartsWith(payload, B1)

\* C9: an input whose normalization is empty is serialized to exactly "D1:"
\* without a call of either format codec, and "D1:" deserializes to the
\* empty sequence.
EmptySetCanonical ==
  /\ pc = "encoded" /\ ValidMembers(numbers) = {} => payload = D1 /\ ran = {}
  /\ pc = "decoded" /\ payload = D1 => output = Return(<<>>)

\* a non-empty collection without a valid member went through both calls
EmptySetWitness ==
  /\ pc = "decoded"
  /\ Len(numbers) > 0
  /\ ValidMembers(numbers) = {}
  /\ payload = D1
  /\ output = Return(<<>>)

\* C10: normalizeNumbers returns for every input collection, and normalizing
\* its result again returns the same array.
NormalizeIdempotent ==
  /\ pc \in {"normalized", "renormalized"} => output.ok
  /\ pc = "renormalized" => again = output

\* a collection with a duplicate or an invalid value and a valid member
NormalizeWitness ==
  /\ pc = "renormalized"
  /\ again = output
  /\ Len(output.value) > 1
  /\ Len(numbers) > Len(output.value)
  /\ \E i \in 1..Len(numbers) : ~KeepNumber(numbers[i])

\* ------------------------------------------------------------ decoding
\* the bytes the transcoder decodes the body to
BodyBytes == decodeBytesForDelta(Body)

\* C3: deserialize of a "B1:" payload whose body does not decode to exactly
\* 38 bytes fails and returns no numbers.
BitmaskFixedWidth ==
  pc = "decoded" /\ StartsWith(payload, B1) /\ Len(BodyBytes) # BITMASK_SIZE_BYTES
    => ~output.ok

\* C4: a D1 payload whose decoding returns has only members of [1,300]: a
\* reconstructed member outside the range raises an error.
DeltaMembersInRange ==
  pc = "decoded" /\ StartsWith(payload, D1) /\ output.ok
    => \A i \in 1..Len(output.value) :
         output.value[i] >= MIN_VALUE /\ output.value[i] <= MAX_VALUE

\* the place (1, 2, ...) of byte i within its varint: a varint ends at a byte
\* whose continuation bit is clear
PlaceInVarint(bytes, i) ==
  i - Max({0} \cup {j \in 1..(i - 1) : bytes[j] < 128})

\* the byte gives the varint a bit at position 31 or above: the fifth byte
\* has one of its data bits 3..6 set, or a later byte has any data bit set
CarriesBit31OrAbove(bytes, i) ==
  \/ PlaceInVarint(bytes, i) = 5 /\ bytes[i] % 128 >= 8
  \/ PlaceInVarint(bytes, i) > 5 /\ bytes[i] % 128 > 0

\* C5: a D1 body with a varint whose bytes carry more than fits the 32-bit
\* integer (a value that would wrap to a negative number or lose its high
\* bits) is rejected with an error.
VarintOverflowRejected ==
  pc = "decoded" /\ StartsWith(payload, D1)
    /\ (\E i \in 1..Len(BodyBytes) : CarriesBit31OrAbove(BodyBytes, i))
    => ~output.ok

Base64urlAlphabet ==
  {Alphabet[i] : i \in 1..62} \cup {"-", "_"}

\* C6: deserialize of a B1 or D1 payload whose body has a character outside
\* the base64url alphabet fails.
AlphabetViolationRejected ==
  pc = "decoded" /\ (StartsWith(payload, B1) \/ StartsWith(payload, D1))
    /\ (\E i \in 1..Len(Body) : Body[i] \notin Base64urlAlphabet)
    => ~output.ok

\* C7: whatever the payload, a result deserialize returns is strictly
\* increasing.
ResultStrictlyIncreasing ==
  pc = "decoded" /\ output.ok => StrictlyIncreasing(output.value)

HasMarker == StartsWith(payload, B1) \/ StartsWith(payload, D1)

DispatchByMarker ==
  /\ StartsWith(payload, B1) => ran = {"deserializeBitset"}
  /\ StartsWith(payload, D1) => ran = {"deserializeDelta"}

NamesPrefix ==
  /\ ~output.ok
  /\ "got" \in DOMAIN output.error
  /\ output.error.got = Substring(payload, 3)

\* C8 as stated: every payload without the marker "B1:" or "D1:" fails with
\* an error that names the offending prefix, no format decoder having run;
\* "B1:" goes to the bitset decoder only and "D1:" to the delta decoder only.
MarkerDispatchAnyPayload ==
  pc = "decoded" =>
    /\ ~HasMarker => NamesPrefix /\ ran = {}
    /\ DispatchByMarker

\* C8, amended: the same for every non-empty payload; the empty payload
\* fails with the error "must be a non-empty string", which names no prefix,
\* no format decoder having run.
MarkerDispatch ==
  pc = "decoded" =>
    /\ ~HasMarker /\ Len(payload) > 0 => NamesPrefix /\ ran = {}
    /\ Len(payload) = 0 =>
         /\ output = Throw("Invalid payload: must be a non-empty string")
         /\ ran = {}
    /\ DispatchByMarker

\* "XX:" followed by a body was refused by name
MarkerDispatchWitness ==
  /\ pc = "decoded"
  /\ StartsWith(payload, <<"X", "X", ":">>)
  /\ Len(payload) > 3
  /\ ~output.ok
  /\ output.error.got = <<"X", "X", ":">>
  /\ ran = {}

\* ------------------------------------------------------------ bitmask
\* bit p of a byte array, p counted from the most significant bit of byte 0
BitFromMsb(bytes, p) == (bytes[p \div 8 + 1] \div Pow2(7 - (p % 8))) % 2

\* C11: the bitmask the bitset encoder builds is 38 bytes long, its bit n-1
\* counted from the most significant bit of byte 0 is set iff n is a valid
\* member of the input, and the low 4 bits of byte 37 are 0.
BitmaskInvariant ==
  pc = "bitset" =>
    LET bitmask == output.value
    IN  /\ Len(bitmask) = 38
        /\ \A i \in 1..38 : bitmask[i] \in 0..255
        /\ \A n \in 1..300 :
             BitFromMsb(bitmask, n - 1) = 1 <=> n \in ValidMembers(numbers)
        /\ bitmask[38] % 16 = 0
        /\ payload = B1 \o base64urlEncode(bitmask)

\* the hybrid path built a bitmask with the last usable bit set from an
\* input that also holds a value outside the range
BitmaskWitness ==
  /\ pc = "bitset"
  /\ ran = {"serializeBitset"}
  /\ 300 \in ValidMembers(numbers)
  /\ Cardinality(ValidMembers(numbers)) < Len(numbers)
  /\ output.value[38] = 16

\* ------------------------------------------------------------ truncation
\* C12: a D1 payload whose byte stream ends on a byte with the continuation
\* bit set, an incomplete final varint, is rejected with an error and not
\* decoded into a member.
IncompleteVarintRejected ==
  pc = "decoded" /\ StartsWith(payload, D1) /\ Len(BodyBytes) > 0
      /\ BodyBytes[Len(BodyBytes)] >= 128
    => ~output.ok

\* ------------------------------------------------------------ sizes
\* the largest member below m, 0 for the smallest member
Predecessor(S, m) == Max({0} \cup {x \in S : x < m})

\* the bytes of the delta-varint stream of a set: one varint per member,
\* of the gap to its predecessor minus 1, which takes a second byte from 128
DeltaStreamLen(S) ==
  Cardinality(S) + Cardinality({m \in S : m - Predecessor(S, m) - 1 >= 128})

\* C13: the string serialize returns is at most 54 characters long, 3 marker
\* characters and at most 51 body characters; for a non-empty normalized set
\* it is a D1 payload iff the delta-varint stream has at most 37 bytes, and
\* the 54-character B1 payload otherwise.
PayloadSizeBound ==
  pc = "encoded" =>
    /\ Len(payload) <= 54
    /\ StartsWith(payload, B1) \/ StartsWith(payload, D1)
    /\ Len(Body) <= 51
    /\ ValidMembers(numbers) # {} =>
         /\ StartsWith(payload, D1) <=> DeltaStreamLen(ValidMembers(numbers)) <= 37
         /\ Len(BodyBytes) = IF StartsWith(payload, D1)
                             THEN DeltaStreamLen(ValidMembers(numbers)) ELSE 38
         /\ ~StartsWith(payload, D1) =>
              /\ Len(payload) = 54
              /\ payload = serializeBitset(normalizeNumbers(numbers))

\* the longest stream still sent as D1, with a gap that takes two bytes
PayloadSizeWitness ==
  /\ pc = "encoded"
  /\ StartsWith(payload, D1)
  /\ DeltaStreamLen(ValidMembers(numbers)) = 37
  /\ Cardinality(ValidMembers(numbers)) < 37
  /\ Len(payload) = 53

====
